---- MODULE Spec2Model ----
(***************************************************************************)
(* Hybrid retrieval engine of ANTT_RAG_V5                                  *)
(* (src/backup_20251226_1106/src/services/retrieval_service.py):           *)
(* DocumentFilter and HybridRetriever; the confidence validator            *)
(* (src/src/utils/validator.py) and AnswerService.generate_answer and      *)
(* agenerate_answer (src/src/services/answer_service.py) that consume its  *)
(* results; the EmbeddingCache of                                          *)
(* src/backup_20251226_1106/src/core/embeddings.py.                        *)
(*                                                                         *)
(* Scores are exact rationals kept as integers over a common denominator:  *)
(*   raw scores (distances, BM25 scores, reranker outputs)  unit 1         *)
(*   normalised scores                                       unit 1/Den    *)
(*   weights                                                 unit 1/WOne   *)
(*   scores of a result (fused, raw or 1.0)                  unit 1/ONE    *)
(* Floating-point rounding is not modelled.                                *)
(***************************************************************************)
EXTENDS Integers, Sequences, FiniteSets, TLC

\* ---------------------------------------------------------------- bounds
MaxK == 2
MaxRaw == 2
WHalf == 1
MaxScoreLen == 4
MaxDocLen == 3

\* ------------------------------------------------------------- arithmetic
RECURSIVE GCD(_, _)
GCD(a, b) == IF b = 0 THEN a ELSE GCD(b, a % b)

RECURSIVE LCMUpTo(_)
LCMUpTo(n) == IF n <= 1 THEN 1 ELSE LET l == LCMUpTo(n - 1) IN (l * n) \div GCD(l, n)

Den == LCMUpTo(MaxRaw)
WOne == 2 * WHalf
ONE == Den * WOne

RawScores == 0 .. MaxRaw

MinOf(s) == CHOOSE x \in {s[i] : i \in DOMAIN s} : \A j \in DOMAIN s : x <= s[j]
MaxOf(s) == CHOOSE x \in {s[i] : i \in DOMAIN s} : \A j \in DOMAIN s : x >= s[j]
Least(a, b) == IF a <= b THEN a ELSE b

Reverse(s) == [i \in 1 .. Len(s) |-> s[Len(s) + 1 - i]]
\* a slice that does not cut
TakeAll(s, n) == s
Take(s, n) == SubSeq(s, 1, Least(n, Len(s)))
Perms(n) == {p \in [1 .. n -> 1 .. n] : \A i, j \in 1 .. n : p[i] = p[j] => i = j}

\* ------------------------------------------------------------- documents
\* Metadata of the chunks the model works with.  NoStr / NoInt mark a key
\* that is absent from doc.metadata.  ISO dates are kept as YYYYMMDD numbers
\* (string order of fixed-width ISO dates is numeric order); the empty
\* string is 0.  Chunks 1 and 2 are two chunks of the same page.
NoStr == "<absent>"
NoInt == 0 - 1
EmptyDate == 0

Corpus == <<
    [source |-> "res5.pdf", page |-> 1, status |-> "Vigente", precedencia |-> 1,
     vigencia_inicio |-> 20200101, vigencia_fim |-> NoInt, tipo |-> "resolucao"],
    [source |-> "res5.pdf", page |-> 1, status |-> "Vigente", precedencia |-> 1,
     vigencia_inicio |-> 20200101, vigencia_fim |-> NoInt, tipo |-> "resolucao"],
    [source |-> "port9.pdf", page |-> 2, status |-> "Revogado", precedencia |-> 3,
     vigencia_inicio |-> 20100101, vigencia_fim |-> 20191231, tipo |-> "portaria"],
    [source |-> "manual.pdf", page |-> 0, status |-> NoStr, precedencia |-> NoInt,
     vigencia_inicio |-> NoInt, vigencia_fim |-> NoInt, tipo |-> NoStr],
    [source |-> "lei1.pdf", page |-> 7, status |-> "Vigente", precedencia |-> 2,
     vigencia_inicio |-> 20230601, vigencia_fim |-> 20251231, tipo |-> "lei"],
    [source |-> "port2.pdf", page |-> 1, status |-> "Suspenso", precedencia |-> 99,
     vigencia_inicio |-> EmptyDate, vigencia_fim |-> 20300101, tipo |-> "portaria"]
>>

Chunks == DOMAIN Corpus

MetaStr(c, key, default) == IF Corpus[c][key] = NoStr THEN default ELSE Corpus[c][key]
MetaInt(c, key, default) == IF Corpus[c][key] = NoInt THEN default ELSE Corpus[c][key]

\* _get_doc_id: f"{source}_{page}"
GetDocId(c) == <<MetaStr(c, "source", ""), MetaInt(c, "page", 0)>>

\* ------------------------------------------------------- DocumentFilter
\* A document list is a sequence of entries with a field chunk.
DefaultPrecedencia == 99
FarFuture == 99991231

\* filter_by_status with the scan starting one document late
FilterByStatusSkipsFirst(documents, status) ==
    IF documents = <<>> THEN <<>>
    ELSE SelectSeq(Tail(documents), LAMBDA d : MetaStr(d.chunk, "status", "Vigente") = status)

FilterByStatus(documents, status) ==
    SelectSeq(documents, LAMBDA d : MetaStr(d.chunk, "status", "Vigente") = status)

FilterByPrecedence(documents, min_precedence) ==
    IF min_precedence = NoInt THEN documents
    ELSE SelectSeq(documents,
                   LAMBDA d : MetaInt(d.chunk, "precedencia", DefaultPrecedencia) <= min_precedence)

FilterByDateRange(documents, start_date, end_date) ==
    LET afterStart ==
            IF start_date = NoInt \/ start_date = EmptyDate THEN documents
            ELSE SelectSeq(documents,
                           LAMBDA d : MetaInt(d.chunk, "vigencia_inicio", EmptyDate) >= start_date)
    IN  IF end_date = NoInt \/ end_date = EmptyDate THEN afterStart
        ELSE SelectSeq(afterStart,
                       LAMBDA d : MetaInt(d.chunk, "vigencia_fim", FarFuture) <= end_date)

FilterBySourceType(documents, source_types) ==
    IF source_types = {} THEN documents
    ELSE SelectSeq(documents, LAMBDA d : MetaStr(d.chunk, "tipo", "") \in source_types)

ApplyAllFilters(documents, c) ==
    FilterBySourceType(
        FilterByDateRange(
            FilterByPrecedence(FilterByStatus(documents, c.status), c.min_precedence),
            c.start_date, c.end_date),
        c.source_types)

\* ------------------------------------------------------ score normaliser
\* _normalize_scores with the degenerate case mapped to 0.0
NormalizeScoresZeroWhenConstant(scores) ==
    IF scores = <<>> THEN <<>>
    ELSE LET min_score == MinOf(scores)
             max_score == MaxOf(scores)
         IN  IF max_score = min_score THEN [i \in 1 .. Len(scores) |-> 0]
             ELSE [i \in 1 .. Len(scores) |->
                      ((scores[i] - min_score) * Den) \div (max_score - min_score)]

NormalizeScores(scores) ==
    IF scores = <<>> THEN <<>>
    ELSE LET min_score == MinOf(scores)
             max_score == MaxOf(scores)
         IN  IF max_score = min_score THEN [i \in 1 .. Len(scores) |-> Den]
             ELSE [i \in 1 .. Len(scores) |->
                      ((scores[i] - min_score) * Den) \div (max_score - min_score)]


\* ------------------------------------------------------------ the engine
\* Program constants (src/core/config.py RetrievalConfig defaults).
DefaultK == 5
ConfigVectorWeight == WHalf
ConfigBm25Weight == WHalf

Strategies == {"vector_only", "bm25_only", "hybrid", "hybrid_rerank"}

\* The vector store holds StoreDocs; initialize_bm25() without arguments
\* indexes exactly these, initialize_bm25(documents) any of Snapshots.
StoreDocs == <<1, 3>>
Snapshots == {<<2, 1>>, <<4, 1>>}

\* A Document object: the chunk it carries, where the object lives
\* ("store": built afresh by the vector store for this call, "index": the
\* object held in bm25_documents at position pos) and its rerank_score key.
Doc(c, origin, pos, rs) == [chunk |-> c, origin |-> origin, pos |-> pos, rerank_score |-> rs]

\* x or default
OrDefault(x, default) == IF x = NoInt \/ x = 0 THEN default ELSE x

\* np.argsort(scores): any permutation that lists the scores in ascending
\* order (the default sort kind is not stable, ties may come in any order)
IsArgsort(p, scores) ==
    \A i, j \in 1 .. Len(scores) : i < j => scores[p[i]] <= scores[p[j]]

\* vector_search: the first k entries of the store's ranking for the query
VectorSearch(q, k) ==
    LET hits == Take(q.vec, k)
    IN  [documents |-> [i \in 1 .. Len(hits) |-> Doc(hits[i][1], "store", 0, NoInt)],
         scores |-> [i \in 1 .. Len(hits) |-> hits[i][2]]]

\* bm25_search on a built index: scorer is the BM25Okapi object (the
\* snapshot it was built on), docs the bm25_documents list that is read
Bm25Search(scorer, docs, q, k) ==
    LET top_indices == Take(Reverse(q.ord), k)
    IN  [documents |-> [i \in 1 .. Len(top_indices) |->
                           Doc(docs[top_indices[i]].chunk, "index", top_indices[i],
                               docs[top_indices[i]].rerank_score)],
         scores |-> [i \in 1 .. Len(top_indices) |-> q.lex[top_indices[i]]]]

\* doc_scores: an insertion-ordered dict as a sequence of entries
DictPos(dict, id) ==
    IF \E p \in 1 .. Len(dict) : dict[p].id = id
    THEN CHOOSE p \in 1 .. Len(dict) : dict[p].id = id
    ELSE 0

RECURSIVE PutVector(_, _, _, _)
\* lines 274-279: doc_scores[doc_id] = {doc, score * vector_weight}
PutVector(docs, norm, vector_weight, i) ==
    IF i = 0 THEN <<>>
    ELSE LET dict == PutVector(docs, norm, vector_weight, i - 1)
             id == GetDocId(docs[i].chunk)
             e == [id |-> id, doc |-> docs[i], score |-> norm[i] * vector_weight]
             p == DictPos(dict, id)
         IN  IF p = 0 THEN Append(dict, e) ELSE [dict EXCEPT ![p] = e]

RECURSIVE AddBm25(_, _, _, _, _)
\* lines 281-289: add to an existing entry, else insert
AddBm25(dict0, docs, norm, bm25_weight, i) ==
    IF i = 0 THEN dict0
    ELSE LET dict == AddBm25(dict0, docs, norm, bm25_weight, i - 1)
             id == GetDocId(docs[i].chunk)
             p == DictPos(dict, id)
         IN  IF p = 0
             THEN Append(dict, [id |-> id, doc |-> docs[i], score |-> norm[i] * bm25_weight])
             ELSE [dict EXCEPT ![p].score = @ + norm[i] * bm25_weight]

RECURSIVE InsertDesc(_, _)
InsertDesc(sorted, e) ==
    IF sorted = <<>> THEN <<e>>
    ELSE IF Head(sorted).score >= e.score THEN <<Head(sorted)>> \o InsertDesc(Tail(sorted), e)
    ELSE <<e>> \o sorted

RECURSIVE SortedDesc(_, _)
\* sorted(values, key=score, reverse=True): stable, equal scores keep their order
SortedDesc(s, i) == IF i = 0 THEN <<>> ELSE InsertDesc(SortedDesc(s, i - 1), s[i])

\* the fused dict of lines 261-289 for explicit (already defaulted) weights
FusedDict(scorer, docs, q, k, vector_weight, bm25_weight) ==
    LET v == VectorSearch(q, k * 2)
        b == Bm25Search(scorer, docs, q, k * 2)
        vector_scores_norm == NormalizeScores(v.scores)
        bm25_scores_norm == NormalizeScores(b.scores)
    IN  AddBm25(PutVector(v.documents, vector_scores_norm, vector_weight, Len(v.documents)),
                b.documents, bm25_scores_norm, bm25_weight, Len(b.documents))

\* hybrid_search without the fallback of lines 253-255: nothing is found
\* while the lexical index is missing
HybridSearchWithoutFallback(scorer, docs, q, k, vector_weight, bm25_weight) ==
    IF ~scorer.built
    THEN [documents |-> <<>>, scores |-> <<>>]
    ELSE LET vw == OrDefault(vector_weight, ConfigVectorWeight)
             bw == OrDefault(bm25_weight, ConfigBm25Weight)
             dict == FusedDict(scorer, docs, q, k, vw, bw)
             sorted_results == Take(SortedDesc(dict, Len(dict)), k)
         IN  [documents |-> [i \in 1 .. Len(sorted_results) |-> sorted_results[i].doc],
              scores |-> [i \in 1 .. Len(sorted_results) |-> sorted_results[i].score]]

\* hybrid_search; scores of the outcome are in units of 1/ONE
HybridSearch(scorer, docs, q, k, vector_weight, bm25_weight) ==
    IF ~scorer.built
    THEN LET v == VectorSearch(q, k)
         IN  [documents |-> v.documents,
              scores |-> [i \in 1 .. Len(v.scores) |-> v.scores[i] * ONE]]
    ELSE LET vw == OrDefault(vector_weight, ConfigVectorWeight)
             bw == OrDefault(bm25_weight, ConfigBm25Weight)
             dict == FusedDict(scorer, docs, q, k, vw, bw)
             sorted_results == Take(SortedDesc(dict, Len(dict)), k)
         IN  [documents |-> [i \in 1 .. Len(sorted_results) |-> sorted_results[i].doc],
              scores |-> [i \in 1 .. Len(sorted_results) |-> sorted_results[i].score]]

\* rerank that adds the model's output to 1.0 instead of returning it alone
RerankBlended(hasReranker, documents, top_k, r) ==
    IF ~hasReranker
    THEN [documents |-> documents, scores |-> [i \in 1 .. Len(documents) |-> ONE]]
    ELSE IF documents = <<>> THEN [documents |-> <<>>, scores |-> <<>>]
    ELSE LET all_indices == Reverse(r.ord)
             sorted_indices == IF top_k # 0 /\ top_k # NoInt THEN Take(all_indices, top_k)
                               ELSE all_indices
         IN  [documents |-> [i \in 1 .. Len(sorted_indices) |->
                                [documents[sorted_indices[i]] EXCEPT
                                    !.rerank_score = r.scores[sorted_indices[i]]]],
              scores |-> [i \in 1 .. Len(sorted_indices) |->
                             (r.scores[sorted_indices[i]] + 1) * ONE]]

\* rerank: r.scores are the CrossEncoder's outputs for the documents, r.ord
\* the argsort of them
Rerank(hasReranker, documents, top_k, r) ==
    IF ~hasReranker
    THEN [documents |-> documents, scores |-> [i \in 1 .. Len(documents) |-> ONE]]
    ELSE IF documents = <<>> THEN [documents |-> <<>>, scores |-> <<>>]
    ELSE LET all_indices == Reverse(r.ord)
             sorted_indices == IF top_k # 0 /\ top_k # NoInt THEN Take(all_indices, top_k)
                               ELSE all_indices
         IN  [documents |-> [i \in 1 .. Len(sorted_indices) |->
                                [documents[sorted_indices[i]] EXCEPT
                                    !.rerank_score = r.scores[sorted_indices[i]]]],
              scores |-> [i \in 1 .. Len(sorted_indices) |-> r.scores[sorted_indices[i]] * ONE]]

\* the effect of rerank's metadata writes (lines 335-336) on the objects
\* held in bm25_documents
AfterRerank(docs, reranked) ==
    [p \in 1 .. Len(docs) |->
        IF \E i \in 1 .. Len(reranked) : reranked[i].origin = "index" /\ reranked[i].pos = p
        THEN [docs[p] EXCEPT !.rerank_score =
                 (CHOOSE d \in {reranked[i] : i \in 1 .. Len(reranked)} :
                      d.origin = "index" /\ d.pos = p).rerank_score]
        ELSE docs[p]]


\* line 378 left out: the scores stay as the strategy produced them
ScoresNotTruncated(scores, documents) == scores

\* line 378: scores = scores[:len(documents)]
TruncateScores(scores, documents) == Take(scores, Len(documents))

\* ----------------------------------------------------------------- state
VARIABLES
    bm25,            \* self.bm25: [built, docs]; built = FALSE is None, docs the
                     \* snapshot the BM25Okapi object was built on
    bm25_corpus,     \* self.bm25_corpus: per document, the chunk whose tokens it holds
    bm25_documents,  \* self.bm25_documents: the Document objects [chunk, rerank_score]
    reranker,        \* self.reranker is not None
    wr,              \* a running initialize_bm25: [pc, docs]
    rd,              \* a running bm25_search of another thread
    call,            \* the arguments of the call in progress
    result,          \* what that call returned or raised
    cache            \* an EmbeddingCache: [enabled, files, hits, misses]

vars == <<bm25, bm25_corpus, bm25_documents, reranker, wr, rd, call, result, cache>>

NoCall == [op |-> "none"]
NoResult == [op |-> "none"]
WrIdle == [pc |-> "idle", docs |-> <<>>]
RdIdle == [pc |-> "idle"]

\* no embedding cache is in use (EmbeddingCache(enabled=False))

\* __init__, lines 128-152
RetrieverInit ==
    /\ cache = [enabled |-> FALSE, files |-> <<>>, hits |-> 0, misses |-> 0]
    /\ bm25 = [built |-> FALSE, docs |-> <<>>]
    /\ bm25_corpus = <<>>
    /\ bm25_documents = <<>>
    /\ reranker \in BOOLEAN
    /\ wr = WrIdle
    /\ rd = RdIdle

Init ==
    /\ RetrieverInit
    /\ call = NoCall
    /\ result = NoResult

\* the Document list initialize_bm25 works on: the one passed in, or (None,
\* written <<>>) new objects for everything in the vector store
LoadDocuments(documents) ==
    LET chunks == IF documents = <<>> THEN StoreDocs ELSE documents
    IN  [i \in 1 .. Len(chunks) |-> [chunk |-> chunks[i], rerank_score |-> NoInt]]

ChunksOf(docs) == [i \in 1 .. Len(docs) |-> docs[i].chunk]

\* initialize_bm25 without the assignment of line 200
InitializeBm25WithoutScorer(documents) ==
    /\ result = NoResult
    /\ bm25_documents' = LoadDocuments(documents)
    /\ bm25_corpus' = ChunksOf(LoadDocuments(documents))
    /\ UNCHANGED <<cache, bm25, reranker, wr, rd, call, result>>

\* initialize_bm25 run without interruption
InitializeBm25(documents) ==
    /\ result = NoResult
    /\ bm25_documents' = LoadDocuments(documents)
    /\ bm25_corpus' = ChunksOf(LoadDocuments(documents))
    /\ bm25' = [built |-> TRUE, docs |-> ChunksOf(LoadDocuments(documents))]
    /\ UNCHANGED <<cache, reranker, wr, rd, call, result>>

\* ---------------------------------------------------- inputs of a query
\* q.vec: what similarity_search_with_score holds for the query, the store's
\* documents by ascending distance; q.lex: what get_scores returns, one
\* score per indexed document; q.ord: the argsort of q.lex.
VecInputs ==
    {v \in [1 .. Len(StoreDocs) -> {StoreDocs[i] : i \in 1 .. Len(StoreDocs)} \X RawScores] :
        /\ \A i, j \in 1 .. Len(StoreDocs) : v[i][1] = v[j][1] => i = j
        /\ \A i \in 1 .. Len(StoreDocs) - 1 : v[i][2] <= v[i + 1][2]}

LexInputs(n) ==
    {x \in [lex : [1 .. n -> RawScores], ord : Perms(n)] : IsArgsort(x.ord, x.lex)}

NoLex == [lex |-> <<>>, ord |-> <<>>]

RerankOut == {0 - 2, 2}
RerankInputs(n) ==
    {x \in [scores : [1 .. n -> RerankOut], ord : Perms(n)] : IsArgsort(x.ord, x.scores)}
NoRerank == [scores |-> <<>>, ord |-> <<>>]

\* fails: the call of similarity_search_with_score raises (the store cannot
\* be reached) instead of returning q.vec
Query(v, x) == [vec |-> v, lex |-> x.lex, ord |-> x.ord, fails |-> FALSE]
Failing(q) == [q EXCEPT !.fails = TRUE]
UsesVector(strategy) == strategy \in {"vector_only", "hybrid", "hybrid_rerank"}

KInputs == {NoInt} \cup (1 .. MaxK)

\* filter_kwargs together with apply_filters; given = FALSE is None or {}
Criteria(status, min_precedence, start_date, end_date, source_types) ==
    [status |-> status, min_precedence |-> min_precedence, start_date |-> start_date,
     end_date |-> end_date, source_types |-> source_types]
FilterCalls ==
    {[apply |-> TRUE, given |-> FALSE, c |-> Criteria("Vigente", NoInt, NoInt, NoInt, {})],
     [apply |-> TRUE, given |-> TRUE, c |-> Criteria("Vigente", NoInt, NoInt, NoInt, {})],
     [apply |-> TRUE, given |-> TRUE, c |-> Criteria("Revogado", NoInt, NoInt, NoInt, {})],
     [apply |-> FALSE, given |-> TRUE, c |-> Criteria("Vigente", NoInt, NoInt, NoInt, {})]}


WeightCalls ==
    {<<NoInt, NoInt>>} \cup {w \in (0 .. WOne) \X (0 .. WOne) : w[1] + w[2] = WOne}

StrategyInputs == Strategies \cup {"unsupported"}

\* ------------------------------------------------------------- retrieve
Scaled(scores) == [i \in 1 .. Len(scores) |-> scores[i] * ONE]

Found(documents, scores, docs_after) ==
    [ok |-> TRUE, error |-> "", documents |-> documents, scores |-> scores,
     docs_after |-> docs_after]
Raised(error) ==
    [ok |-> FALSE, error |-> error, documents |-> <<>>, scores |-> <<>>,
     docs_after |-> bm25_documents]

\* lines 355-367: the search of the strategy, before any reranking
Candidates(strategy, q, k) ==
    IF UsesVector(strategy) /\ q.fails
    THEN Raised("VectorStoreError")
    ELSE IF strategy = "vector_only"
    THEN LET v == VectorSearch(q, k) IN Found(v.documents, Scaled(v.scores), bm25_documents)
    ELSE IF strategy = "bm25_only"
    THEN IF ~bm25.built THEN Raised("RuntimeError")
         ELSE LET b == Bm25Search(bm25, bm25_documents, q, k)
              IN  Found(b.documents, Scaled(b.scores), bm25_documents)
    ELSE IF strategy = "hybrid"
    THEN LET h == HybridSearch(bm25, bm25_documents, q, k, NoInt, NoInt)
         IN  Found(h.documents, h.scores, bm25_documents)
    ELSE IF strategy = "hybrid_rerank"
    THEN LET h == HybridSearch(bm25, bm25_documents, q, k * 2, NoInt, NoInt)
         IN  Found(h.documents, h.scores, bm25_documents)
    ELSE Raised("ValueError")

\* line 369: HYBRID_RERANK reranks its candidates down to k
Reranked(strategy, cand, k, r) ==
    IF strategy = "hybrid_rerank"
    THEN LET rr == Rerank(reranker, cand.documents, k, r)
         IN  Found(rr.documents, rr.scores,
                   IF reranker THEN AfterRerank(bm25_documents, rr.documents)
                   ELSE bm25_documents)
    ELSE cand

\* lines 374-378: the governance filters
Governed(s, f) ==
    IF s.ok /\ f.apply /\ f.given
    THEN LET documents == ApplyAllFilters(s.documents, f.c)
         IN  [s EXCEPT !.documents = documents,
                       !.scores = TruncateScores(s.scores, documents)]
    ELSE s

\* the RetrievalResult of lines 382-393 (or the exception) for the outcome s
\* of the strategy, which it keeps as the documents and scores before the
\* filters
RetrievalResult(s, strategy, k, f) ==
    LET g == Governed(s, f)
    IN  [op |-> "retrieve", ok |-> g.ok, error |-> g.error,
         documents |-> g.documents, scores |-> g.scores,
         strategy |-> strategy, k |-> k,
         total_results |-> Len(g.documents), filters_applied |-> f.apply,
         before_documents |-> s.documents, before_scores |-> s.scores]

Retrieve ==
    /\ result = NoResult
    /\ \E strategy \in StrategyInputs, k_in \in KInputs :
       \E up \in (IF UsesVector(strategy) THEN BOOLEAN ELSE {TRUE}) :
       \E v \in (IF UsesVector(strategy) /\ up THEN VecInputs ELSE {<<>>}),
          x \in (IF strategy \in {"vector_only", "unsupported"} \/ ~bm25.built THEN {NoLex}
                 ELSE LexInputs(Len(bm25.docs))) :
          LET q == IF up THEN Query(v, x) ELSE Failing(Query(v, x))
              k == OrDefault(k_in, DefaultK)
              cand == Candidates(strategy, q, k)
              n == IF strategy = "hybrid_rerank" /\ reranker THEN Len(cand.documents) ELSE 0
          IN  \E r \in (IF n = 0 THEN {NoRerank} ELSE RerankInputs(n)) :
                 LET s == Reranked(strategy, cand, k, r)
                 IN  \E f \in FilterCalls :
                        /\ call' = [op |-> "retrieve", q |-> q, k |-> k_in,
                                    strategy |-> strategy, f |-> f, r |-> r,
                                    vector_weight |-> NoInt, bm25_weight |-> NoInt]
                        /\ result' = RetrievalResult(s, strategy, k, f)
                        /\ bm25_documents' = s.docs_after
    /\ UNCHANGED <<cache, bm25, bm25_corpus, reranker, wr, rd>>

\* a direct call of hybrid_search(query, k, vector_weight, bm25_weight)
HybridSearchCall ==
    /\ result = NoResult
    /\ \E k \in 1 .. MaxK, w \in WeightCalls, up \in BOOLEAN :
       \E v \in (IF up THEN VecInputs ELSE {<<>>}),
          x \in (IF ~bm25.built THEN {NoLex} ELSE LexInputs(Len(bm25.docs))) :
          LET q == IF up THEN Query(v, x) ELSE Failing(Query(v, x))
              h == IF up THEN HybridSearch(bm25, bm25_documents, q, k, w[1], w[2])
                   ELSE [documents |-> <<>>, scores |-> <<>>]
          IN  /\ call' = [op |-> "hybrid_search", q |-> q, k |-> k, strategy |-> "",
                          f |-> [apply |-> FALSE, given |-> FALSE,
                                 c |-> Criteria("Vigente", NoInt, NoInt, NoInt, {})],
                          r |-> NoRerank, vector_weight |-> w[1], bm25_weight |-> w[2]]
              /\ result' = [op |-> "hybrid_search", ok |-> up,
                            error |-> IF up THEN "" ELSE "VectorStoreError",
                            documents |-> h.documents, scores |-> h.scores,
                            strategy |-> "", k |-> k,
                            total_results |-> Len(h.documents), filters_applied |-> FALSE,
                            before_documents |-> h.documents, before_scores |-> h.scores]
    /\ UNCHANGED <<cache, bm25, bm25_corpus, bm25_documents, reranker, wr, rd>>

\* the caller takes the value (or the exception) of the finished call
Return ==
    /\ result # NoResult
    /\ result.op \in {"retrieve", "hybrid_search", "generate_answer", "agenerate_answer"}
    /\ call' = NoCall
    /\ result' = NoResult
    /\ UNCHANGED <<cache, bm25, bm25_corpus, bm25_documents, reranker, wr, rd>>

Next ==
    \/ \E documents \in Snapshots \cup {<<>>} : InitializeBm25(documents)
    \/ Retrieve
    \/ HybridSearchCall
    \/ Return

Spec == Init /\ [][Next]_vars

\* ------------------------------------------------- properties of retrieve
IsRetrieval == result.op = "retrieve" /\ result.ok
EffectiveK == OrDefault(call.k, DefaultK)

\* C1: every RetrievalResult that retrieve returns, whatever the strategy,
\* k and filter criteria, holds exactly as many scores as documents
C1_SameLength ==
    IsRetrieval => Len(result.documents) = Len(result.scores)

\* a retrieval whose filters removed some, not all, of the documents
C1_Witness ==
    /\ IsRetrieval
    /\ Len(result.documents) < Len(result.before_documents)
    /\ Len(result.documents) > 0
    /\ Len(result.documents) = Len(result.scores)

\* C2: every RetrievalResult holds at most k documents, for each strategy
\* and with or without a reranker
C2_AtMostK ==
    IsRetrieval => Len(result.documents) <= EffectiveK

\* C3: after the governance filters every remaining document is paired with
\* the score it had before the filters
C3_ScoresFollowDocuments ==
    IsRetrieval =>
        \A i \in 1 .. Len(result.documents) :
            /\ i <= Len(result.scores)
            /\ \E j \in 1 .. Len(result.before_documents) :
                  /\ result.before_documents[j] = result.documents[i]
                  /\ result.before_scores[j] = result.scores[i]

\* the candidate lists hybrid_search fuses for the call in progress, with
\* the weights in effect
CallVectorWeight == OrDefault(call.vector_weight, ConfigVectorWeight)
CallBm25Weight == OrDefault(call.bm25_weight, ConfigBm25Weight)
CallVector == VectorSearch(call.q, call.k * 2)
CallBm25 == Bm25Search(bm25, bm25_documents, call.q, call.k * 2)
VectorContributions(id) ==
    LET norm == NormalizeScores(CallVector.scores)
        at == {j \in 1 .. Len(norm) : GetDocId(CallVector.documents[j].chunk) = id}
    IN  IF at = {} THEN {0} ELSE {norm[j] * CallVectorWeight : j \in at}
Bm25Contributions(id) ==
    LET norm == NormalizeScores(CallBm25.scores)
        at == {j \in 1 .. Len(norm) : GetDocId(CallBm25.documents[j].chunk) = id}
    IN  IF at = {} THEN {0} ELSE {norm[j] * CallBm25Weight : j \in at}

\* C4: with the lexical index built, a document found by both searches gets
\* vector_score*vector_weight + bm25_score*bm25_weight on normalised scores,
\* and a document found by one search only gets that search's share alone
C4_FusedScore ==
    (result.op = "hybrid_search" /\ bm25.built) =>
        \A i \in 1 .. Len(result.documents) :
            LET id == GetDocId(result.documents[i].chunk)
            IN  result.scores[i] \in
                    {a + b : a \in VectorContributions(id), b \in Bm25Contributions(id)}

\* the raw vector score of a chunk for the query of the call (NoInt when the
\* vector search does not hold it)
VectorScoreOf(c) ==
    IF \E j \in 1 .. Len(call.q.vec) : call.q.vec[j][1] = c
    THEN call.q.vec[CHOOSE j \in 1 .. Len(call.q.vec) : call.q.vec[j][1] = c][2]
    ELSE NoInt

\* C5: hybrid_search with vector_weight = 1 and bm25_weight = 0 returns the
\* documents of vector_search truncated to k in the same order, up to ties
C5_VectorWeightOnly ==
    (/\ result.op = "hybrid_search" /\ bm25.built
     /\ call.vector_weight = WOne /\ call.bm25_weight = 0) =>
        LET v == VectorSearch(call.q, call.k)
        IN  /\ Len(result.documents) = Len(v.documents)
            /\ \A i \in 1 .. Len(result.documents) :
                  /\ i <= Len(v.scores)
                  /\ VectorScoreOf(result.documents[i].chunk) = v.scores[i]

\* C6: without a reranker HYBRID_RERANK returns the documents HYBRID returns
\* for the same query and k, in the same order, each with score 1.0
C6_DegradedRerank ==
    (IsRetrieval /\ result.strategy = "hybrid_rerank" /\ ~reranker) =>
        LET h == Governed(Candidates("hybrid", call.q, EffectiveK), call.f)
        IN  /\ result.documents = h.documents
            /\ \A i \in 1 .. Len(result.scores) : result.scores[i] = ONE

\* C7: every score retrieve returns for HYBRID and HYBRID_RERANK once the
\* candidate scores went through the normaliser (the lexical index is built)
\* is in [0,1]
C7_ScoresInUnitInterval ==
    (IsRetrieval /\ bm25.built /\ result.strategy \in {"hybrid", "hybrid_rerank"}) =>
        \A i \in 1 .. Len(result.scores) : 0 <= result.scores[i] /\ result.scores[i] <= ONE


\* C12: bm25_search returns the k highest-scored documents of the index in
\* descending score order, documents of equal score in the order of the
\* snapshot
C12_Bm25TopK ==
    (IsRetrieval /\ result.strategy = "bm25_only") =>
        LET docs == result.before_documents
            scores == result.before_scores
        IN  /\ Len(docs) = Least(EffectiveK, Len(bm25.docs))
            /\ \A i \in 1 .. Len(docs) : scores[i] = call.q.lex[docs[i].pos] * ONE
            /\ \A i, j \in 1 .. Len(docs) :
                  i < j => \/ scores[i] > scores[j]
                           \/ scores[i] = scores[j] /\ docs[i].pos < docs[j].pos
            /\ \A p \in 1 .. Len(bm25.docs) :
                  (\A i \in 1 .. Len(docs) : docs[i].pos # p) =>
                      \A i \in 1 .. Len(docs) : call.q.lex[p] * ONE <= scores[i]

\* C13: when the call of the vector index fails during a HYBRID or
\* HYBRID_RERANK retrieve and the lexical index is built, retrieve does not
\* fail: it returns the results of the lexical search alone
C13_DegradesToLexical ==
    (/\ result.op = "retrieve" /\ result.strategy \in {"hybrid", "hybrid_rerank"}
     /\ bm25.built /\ call.q.fails) =>
        /\ result.ok
        /\ \A i \in 1 .. Len(result.before_documents) :
              result.before_documents[i].origin = "index"

\* C14: with the lexical index not built hybrid_search raises no error of
\* its own and returns exactly what vector_search returns for the same
\* query, k and filter (it fails only where vector_search itself fails)
C14_FallbackIsVectorSearch ==
    (result.op = "hybrid_search" /\ ~bm25.built) =>
        LET v == VectorSearch(call.q, call.k)
        IN  /\ result.error # "RuntimeError"
            /\ result.ok <=> ~call.q.fails
            /\ result.ok => /\ result.documents = v.documents
                            /\ result.scores = Scaled(v.scores)

\* hybrid_search with explicit weights answered from the vector store alone
C14_Witness ==
    /\ result.op = "hybrid_search" /\ result.ok
    /\ ~bm25.built
    /\ call.vector_weight = WHalf
    /\ Len(result.documents) = 2
    /\ result.scores[1] < result.scores[2]

\* C15: a BM25_ONLY retrieve fails with the index-not-ready error exactly
\* when no initialize_bm25 has completed before it: the index starts
\* missing, every completed initialize_bm25 builds it, nothing else does,
\* and once built it stays built
C15_IndexReadyAfterInitialize ==
    /\ ~bm25.built
    /\ []((result.op = "retrieve" /\ result.strategy = "bm25_only") =>
             (result.error = "RuntimeError" <=> ~bm25.built))
    /\ [][(\E documents \in Snapshots \cup {<<>>} : InitializeBm25(documents))
             => bm25'.built]_vars
    /\ [][bm25'.built =>
             (bm25.built \/ \E documents \in Snapshots \cup {<<>>} : InitializeBm25(documents))]_vars
    /\ [][bm25.built => bm25'.built]_vars

\* a BM25_ONLY retrieve that found documents after the index was built
C15_Witness ==
    /\ IsRetrieval /\ result.strategy = "bm25_only"
    /\ bm25.built
    /\ Len(result.documents) > 0

\* the candidates rerank was given by the HYBRID_RERANK retrieve in progress

\* C22: with a reranker configured, rerank returns each document it keeps
\* with exactly the pairwise model's score for it, in descending order of
\* that score, and keeps the top_k best
C22_RerankReplacesScores ==
    (IsRetrieval /\ result.strategy = "hybrid_rerank" /\ reranker) =>
        LET docs == result.before_documents
            scores == result.before_scores
            cand == Candidates("hybrid_rerank", call.q, EffectiveK).documents
        IN  /\ Len(docs) = Least(EffectiveK, Len(cand))
            /\ Len(scores) = Len(docs)
            /\ \A i, j \in 1 .. Len(scores) : i < j => scores[i] >= scores[j]
            /\ \E at \in [1 .. Len(docs) -> 1 .. Len(cand)] :
                  /\ \A i, j \in 1 .. Len(docs) : at[i] = at[j] => i = j
                  /\ \A i \in 1 .. Len(docs) :
                        /\ docs[i].chunk = cand[at[i]].chunk
                        /\ docs[i].origin = cand[at[i]].origin
                        /\ scores[i] = call.r.scores[at[i]] * ONE
                  /\ \A j \in 1 .. Len(cand) :
                        (\A i \in 1 .. Len(docs) : at[i] # j) =>
                            \A i \in 1 .. Len(docs) : call.r.scores[j] * ONE <= scores[i]

\* of two fused candidates the reranker liked one and disliked the other,
\* and k = 1 kept the one it liked
C22_Witness ==
    /\ IsRetrieval /\ result.strategy = "hybrid_rerank" /\ reranker
    /\ EffectiveK = 1
    /\ Len(Candidates("hybrid_rerank", call.q, EffectiveK).documents) = 2
    /\ \E j \in 1 .. 2 : call.r.scores[j] < 0
    /\ result.before_scores = <<2 * ONE>>

\* C23: with the lexical index built, the list hybrid_search returns is in
\* descending order of fused score and holds the k highest-scored entries
\* (all of them when there are fewer than k) of the documents, unique by
\* identity, that the two candidate lists hold together
C23_SortedTopK ==
    (result.op = "hybrid_search" /\ result.ok /\ bm25.built) =>
        LET docs == result.documents
            scores == result.scores
            dict == FusedDict(bm25, bm25_documents, call.q, call.k,
                              CallVectorWeight, CallBm25Weight)
        IN  /\ Len(docs) = Least(call.k, Len(dict))
            /\ Len(scores) = Len(docs)
            /\ \A i, j \in 1 .. Len(scores) : i < j => scores[i] >= scores[j]
            /\ \A i, j \in 1 .. Len(docs) :
                  GetDocId(docs[i].chunk) = GetDocId(docs[j].chunk) => i = j
            /\ \A i \in 1 .. Len(docs) :
                  \E e \in 1 .. Len(dict) :
                     dict[e].doc = docs[i] /\ dict[e].score = scores[i]
            /\ \A e \in 1 .. Len(dict) :
                  (\A i \in 1 .. Len(docs) : GetDocId(docs[i].chunk) # dict[e].id) =>
                      \A i \in 1 .. Len(docs) : dict[e].score <= scores[i]

\* three identities were fused, the two best were returned, the best first
C23_Witness ==
    /\ result.op = "hybrid_search" /\ result.ok /\ bm25.built
    /\ call.k = 2
    /\ Len(result.documents) = 2
    /\ result.scores[1] > result.scores[2]
    /\ LET dict == FusedDict(bm25, bm25_documents, call.q, call.k,
                          CallVectorWeight, CallBm25Weight)
       IN  Len(dict) = 3 /\ dict[1].score < result.scores[2]

\* C24: of two vector candidates of hybrid_search the one the vector store
\* ranks as more relevant never gets the lower normalised vector score
C24_RelevanceKeepsOrder ==
    (result.op = "hybrid_search" /\ result.ok /\ bm25.built) =>
        LET norm == NormalizeScores(CallVector.scores)
        IN  \A i, j \in 1 .. Len(norm) : i < j => norm[i] >= norm[j]

\* C25: a retrieve call leaves the Documents held by the lexical index as
\* initialize_bm25 stored them
C25_SnapshotUntouched ==
    (result.op = "retrieve" /\ bm25.built) =>
        bm25_documents = [p \in 1 .. Len(bm25.docs) |->
                             [chunk |-> bm25.docs[p], rerank_score |-> NoInt]]

\* C27: every fused score of hybrid_search counts at most one vector and one
\* lexical contribution for its (source, page) identity, so none exceeds
\* vector_weight + bm25_weight
C27_OneContributionPerIdentity ==
    (result.op = "hybrid_search" /\ result.ok /\ bm25.built) =>
        \A i \in 1 .. Len(result.scores) :
            result.scores[i] <= (CallVectorWeight + CallBm25Weight) * Den

\* ------------------------------------- a rebuild interleaved with a search
\* initialize_bm25 as the steps another thread can see between: its three
\* assignments to self (lines 194, 196, 200)
BeginInitialize(documents) ==
    /\ wr.pc = "idle"
    /\ wr' = [pc |-> "set_documents", docs |-> LoadDocuments(documents)]
    /\ UNCHANGED <<cache, bm25, bm25_corpus, bm25_documents, reranker, rd, call, result>>

SetDocuments ==
    /\ wr.pc = "set_documents"
    /\ bm25_documents' = wr.docs
    /\ wr' = [wr EXCEPT !.pc = "set_corpus"]
    /\ UNCHANGED <<cache, bm25, bm25_corpus, reranker, rd, call, result>>

SetCorpus ==
    /\ wr.pc = "set_corpus"
    /\ bm25_corpus' = ChunksOf(wr.docs)
    /\ wr' = [wr EXCEPT !.pc = "set_bm25"]
    /\ UNCHANGED <<cache, bm25, bm25_documents, reranker, rd, call, result>>

SetBm25 ==
    /\ wr.pc = "set_bm25"
    /\ bm25' = [built |-> TRUE, docs |-> bm25_corpus]
    /\ wr' = WrIdle
    /\ UNCHANGED <<cache, bm25_corpus, bm25_documents, reranker, rd, call, result>>

\* bm25_search of another thread, lines 228-235: the check, get_scores on
\* self.bm25 and the argsort
BeginSearch ==
    /\ rd.pc = "idle"
    /\ IF ~bm25.built
       THEN rd' = [pc |-> "done", ok |-> FALSE, error |-> "RuntimeError"]
       ELSE \E k \in 1 .. MaxK, x \in LexInputs(Len(bm25.docs)) :
               rd' = [pc |-> "read_documents", scorer |-> bm25, q |-> Query(<<>>, x), k |-> k,
                      top_indices |-> Take(Reverse(x.ord), k)]
    /\ UNCHANGED <<cache, bm25, bm25_corpus, bm25_documents, reranker, wr, call, result>>

\* lines 237-240: the documents are taken from self.bm25_documents
ReadDocuments ==
    /\ rd.pc = "read_documents"
    /\ IF \E i \in 1 .. Len(rd.top_indices) : rd.top_indices[i] > Len(bm25_documents)
       THEN rd' = [pc |-> "done", ok |-> FALSE, error |-> "IndexError"]
       ELSE LET b == Bm25Search(rd.scorer, bm25_documents, rd.q, rd.k)
            IN  rd' = [pc |-> "done", ok |-> TRUE, error |-> "", scorer |-> rd.scorer,
                       top_indices |-> rd.top_indices,
                       documents |-> b.documents, scores |-> b.scores]
    /\ UNCHANGED <<cache, bm25, bm25_corpus, bm25_documents, reranker, wr, call, result>>

EndSearch ==
    /\ rd.pc = "done"
    /\ rd' = RdIdle
    /\ UNCHANGED <<cache, bm25, bm25_corpus, bm25_documents, reranker, wr, call, result>>

NextConc ==
    \/ \E documents \in Snapshots \cup {<<>>} : BeginInitialize(documents)
    \/ SetDocuments
    \/ SetCorpus
    \/ SetBm25
    \/ BeginSearch
    \/ ReadDocuments
    \/ EndSearch

SpecConc == Init /\ [][NextConc]_vars

\* C8: a bm25_search that runs while initialize_bm25 rebuilds the index reads
\* scorer and documents of one and the same build: every index it ranks
\* refers to the document that was scored
C8_NoHalfBuiltIndex ==
    rd.pc = "done" =>
        /\ rd.error # "IndexError"
        /\ rd.ok => \A i \in 1 .. Len(rd.documents) :
                        rd.documents[i].chunk = rd.scorer.docs[rd.top_indices[i]]

\* ------------------------------------------- the pure functions on their own
RECURSIVE SeqsUpTo(_, _)
SeqsUpTo(S, n) ==
    IF n = 0 THEN {<<>>}
    ELSE LET shorter == SeqsUpTo(S, n - 1)
         IN  shorter \cup {Append(s, x) : s \in {t \in shorter : Len(t) = n - 1}, x \in S}

\* _normalize_scores applied to a score list
InitNorm ==
    /\ RetrieverInit
    /\ call \in {[op |-> "normalize", scores |-> s] : s \in SeqsUpTo(RawScores, MaxScoreLen)}
    /\ result = NoResult

NormalizeCall ==
    /\ call.op = "normalize"
    /\ result = NoResult
    /\ result' = [op |-> "normalize", scores |-> NormalizeScores(call.scores)]
    /\ UNCHANGED <<cache, bm25, bm25_corpus, bm25_documents, reranker, wr, rd, call>>

SpecNorm == InitNorm /\ [][NormalizeCall]_vars

\* C10: _normalize_scores maps a non-empty list into [0,1] keeping the order
\* of the inputs, a constant list to all 1.0 and the empty list to itself
C10_Normalize ==
    result.op = "normalize" =>
        LET in == call.scores
            out == result.scores
        IN  /\ Len(out) = Len(in)
            /\ \A i \in 1 .. Len(in) : 0 <= out[i] /\ out[i] <= Den
            /\ \A i, j \in 1 .. Len(in) : in[i] <= in[j] => out[i] <= out[j]
            /\ (\A i, j \in 1 .. Len(in) : in[i] = in[j]) =>
                   \A i \in 1 .. Len(in) : out[i] = Den

\* a list with a least, a greatest and a score in between has been normalised
C10_Witness ==
    /\ result.op = "normalize"
    /\ \E i, j, l \in 1 .. Len(call.scores) :
          /\ call.scores[i] < call.scores[j] /\ call.scores[j] < call.scores[l]
          /\ result.scores[i] = 0 /\ result.scores[l] = Den
          /\ 0 < result.scores[j] /\ result.scores[j] < Den

\* apply_all_filters applied to a document list, then to its own output
StatusInputs == {"Vigente", "Revogado"}
PrecedenceInputs == {NoInt, 1, 2}
StartInputs == {NoInt, 20200101}
EndInputs == {NoInt, 20251231}
SourceTypeInputs == {{}, {"portaria"}, {"resolucao", "lei"}}
CriteriaInputs ==
    {Criteria(st, pr, sd, ed, ty) :
        st \in StatusInputs, pr \in PrecedenceInputs, sd \in StartInputs,
        ed \in EndInputs, ty \in SourceTypeInputs}
DocumentInputs == {Doc(c, "store", 0, NoInt) : c \in Chunks}

InitFilter ==
    /\ RetrieverInit
    /\ call \in {[op |-> "filter", documents |-> d, c |-> c] :
                    d \in SeqsUpTo(DocumentInputs, MaxDocLen), c \in CriteriaInputs}
    /\ result = NoResult

ApplyFiltersCall ==
    /\ call.op = "filter"
    /\ result = NoResult
    /\ result' = [op |-> "filter", round |-> 1, previous |-> call.documents,
                  documents |-> ApplyAllFilters(call.documents, call.c)]
    /\ UNCHANGED <<cache, bm25, bm25_corpus, bm25_documents, reranker, wr, rd, call>>

ApplyFiltersAgain ==
    /\ result.op = "filter"
    /\ result.round = 1
    /\ result' = [op |-> "filter", round |-> 2, previous |-> result.documents,
                  documents |-> ApplyAllFilters(result.documents, call.c)]
    /\ UNCHANGED <<cache, bm25, bm25_corpus, bm25_documents, reranker, wr, rd, call>>

NextFilter == ApplyFiltersCall \/ ApplyFiltersAgain

SpecFilter == InitFilter /\ [][NextFilter]_vars

\* C9: applying the whole filter pipeline to its own output with the same
\* criteria gives that output back
C9_FilterIdempotent ==
    (result.op = "filter" /\ result.round = 2) => result.documents = result.previous

\* the second application ran on a list the first one had shortened
C9_Witness ==
    /\ result.op = "filter" /\ result.round = 2
    /\ Len(result.documents) > 0
    /\ Len(result.documents) < Len(call.documents)
    /\ result.documents = result.previous

\* ------------------------------------------------- the confidence validator
\* (src/src/utils/validator.py, ResponseValidator).  Its scores are exact
\* rationals <<numerator, denominator>> in lowest terms, denominator > 0.
Rat(n, d) == LET g == GCD(IF n < 0 THEN 0 - n ELSE n, d) IN <<n \div g, d \div g>>
Zero == Rat(0, 1)
One == Rat(1, 1)
RAdd(x, y) == Rat(x[1] * y[2] + y[1] * x[2], x[2] * y[2])
RMul(x, y) == Rat(x[1] * y[1], x[2] * y[2])
RLess(x, y) == x[1] * y[2] < y[1] * x[2]
RLeq(x, y) == x[1] * y[2] <= y[1] * x[2]
RMin(x, y) == IF RLeq(x, y) THEN x ELSE y

MaxEvid == 5

\* What the validator reads off an answer text: whether it is a string at all
\* (text = FALSE is None), whether its lower-cased form matches one of the
\* no_answer_patterns / conflict_patterns, the numbers n of its "[n]"
\* markers in order, len(answer.split()), len(answer) and whether
\* r'\.\s+[A-Z]' matches.
Answer(no_answer, conflict, citations, words, length, structure) ==
    [text |-> TRUE, no_answer |-> no_answer, conflict |-> conflict,
     citations |-> citations, words |-> words, length |-> length,
     structure |-> structure]
NoneAnswer == [Answer(FALSE, FALSE, <<>>, 0, 0, FALSE) EXCEPT !.text = FALSE]

\* an Evidence as far as the validator reads it: its precedence (NoInt is None)
Evidence(precedence) == [precedence |-> precedence]

\* _is_no_answer, lines 117-125
IsNoAnswer(answer) == answer.no_answer

\* _detect_conflicts with an empty pattern list
DetectConflictsNever(answer) == FALSE

\* _detect_conflicts, lines 127-135
DetectConflicts(answer) == answer.conflict

\* _validate_citations, lines 137-167
ValidateCitations(answer, num_evidences) ==
    LET citations == answer.citations
        valid_citations == SelectSeq(citations, LAMBDA c : 1 <= c /\ c <= num_evidences)
        unique_citations == Cardinality({valid_citations[i] : i \in DOMAIN valid_citations})
        citation_coverage == IF num_evidences > 0 THEN Rat(unique_citations, num_evidences)
                             ELSE Zero
        words == IF answer.words > 1 THEN answer.words ELSE 1
        citation_density == RMin(Rat(Len(valid_citations) * 100, words), One)
        score == RAdd(RMul(citation_coverage, Rat(7, 10)), RMul(citation_density, Rat(3, 10)))
    IN  IF citations = <<>> THEN Zero
        ELSE IF valid_citations = <<>> THEN Zero
        ELSE RMin(score, One)

MinLength == 100
IdealLength == 500

\* _validate_completeness, lines 169-195
ValidateCompleteness(answer) ==
    LET answer_length == answer.length
        length_score == IF answer_length >= IdealLength THEN One
                        ELSE Rat(answer_length, IdealLength)
        structure_score == IF answer.structure THEN One ELSE Rat(7, 10)
        score == RAdd(RMul(length_score, Rat(6, 10)), RMul(structure_score, Rat(4, 10)))
    IN  IF answer_length < MinLength THEN Rat(3, 10) ELSE RMin(score, One)

RECURSIVE SumPrecedence(_, _)
\* sum of 1.0 - precedence / 100 over the first i evidences that have one
SumPrecedence(evidences, i) ==
    IF i = 0 THEN Zero
    ELSE IF evidences[i].precedence = NoInt THEN SumPrecedence(evidences, i - 1)
    ELSE RAdd(SumPrecedence(evidences, i - 1), Rat(100 - evidences[i].precedence, 100))

\* _validate_evidence_quality, lines 197-235
ValidateEvidenceQuality(evidences, avg_score) ==
    LET num_evidences == Len(evidences)
        quantity_score == RMin(Rat(num_evidences, 5), One)
        relevance_score == RMin(avg_score, One)
        with_precedence == Len(SelectSeq(evidences, LAMBDA e : e.precedence # NoInt))
        precedence_score ==
            IF with_precedence > 0
            THEN RMul(SumPrecedence(evidences, num_evidences), Rat(1, with_precedence))
            ELSE Rat(5, 10)
        score == RAdd(RAdd(RMul(quantity_score, Rat(3, 10)), RMul(relevance_score, Rat(5, 10))),
                      RMul(precedence_score, Rat(2, 10)))
    IN  IF evidences = <<>> THEN Zero ELSE RMin(score, One)

RECURSIVE SumValues(_, _)
\* sum(scores.values())
SumValues(scores, keys) ==
    IF keys = {} THEN Zero
    ELSE LET key == CHOOSE x \in keys : TRUE
         IN  RAdd(scores[key], SumValues(scores, keys \ {key}))

\* the mean of line 247 with the adjustment of lines 250-255
AdjustedScore(scores, num_evidences) ==
    LET mean == IF DOMAIN scores # {}
                THEN RMul(SumValues(scores, DOMAIN scores), Rat(1, Cardinality(DOMAIN scores)))
                ELSE Zero
        adjusted == IF num_evidences < 2 THEN RMul(mean, Rat(7, 10))
                    ELSE IF num_evidences >= 5 THEN RMul(mean, Rat(11, 10))
                    ELSE mean
    IN  RMin(adjusted, One)

\* the thresholds of lines 258-265 taken one step too low
CalculateConfidenceStrict(scores, num_evidences) ==
    LET avg_score == AdjustedScore(scores, num_evidences)
    IN  IF RLess(Rat(8, 10), avg_score) THEN "ALTA"
        ELSE IF RLess(Rat(6, 10), avg_score) THEN "MEDIA"
        ELSE IF RLess(Rat(4, 10), avg_score) THEN "BAIXA"
        ELSE "INSUFICIENTE"

\* _calculate_confidence, lines 237-265
CalculateConfidence(scores, num_evidences) ==
    LET avg_score == AdjustedScore(scores, num_evidences)
    IN  IF RLeq(Rat(8, 10), avg_score) THEN "ALTA"
        ELSE IF RLeq(Rat(6, 10), avg_score) THEN "MEDIA"
        ELSE IF RLeq(Rat(4, 10), avg_score) THEN "BAIXA"
        ELSE "INSUFICIENTE"

EmptyScores == [key \in {} |-> Zero]
NoneWarnings == <<NoStr>>
Warn(cond, text) == IF cond THEN <<text>> ELSE <<>>

Validation(confidence, warnings, scores) ==
    [ok |-> TRUE, error |-> "", is_valid |-> TRUE, confidence |-> confidence,
     warnings |-> warnings, scores |-> scores]
ValidationRaised(error) ==
    [ok |-> FALSE, error |-> error, is_valid |-> FALSE, confidence |-> "",
     warnings |-> <<>>, scores |-> EmptyScores]

\* validate_response with the no-answer check of step 1 left out
ValidateResponseNoShortCircuit(answer, evidences, avg_score) ==
    LET scores == [citations |-> ValidateCitations(answer, Len(evidences)),
                   completeness |-> ValidateCompleteness(answer),
                   evidence_quality |-> ValidateEvidenceQuality(evidences, avg_score)]
    IN  Validation(CalculateConfidence(scores, Len(evidences)), NoneWarnings, scores)

\* validate_response, lines 51-115; answer.lower() of line 119 raises on None
ValidateResponse(answer, evidences, avg_score) ==
    IF ~answer.text THEN ValidationRaised("AttributeError")
    ELSE IF IsNoAnswer(answer)
    THEN Validation("INSUFICIENTE", <<"Resposta indica informação insuficiente">>, EmptyScores)
    ELSE LET scores == [citations |-> ValidateCitations(answer, Len(evidences)),
                        completeness |-> ValidateCompleteness(answer),
                        evidence_quality |-> ValidateEvidenceQuality(evidences, avg_score)]
             warnings ==
                 Warn(RLess(scores.citations, Rat(5, 10)),
                      "Poucas citações encontradas na resposta")
                 \o Warn(RLess(scores.completeness, Rat(5, 10)),
                         "Resposta pode estar incompleta")
                 \o Warn(RLess(scores.evidence_quality, Rat(5, 10)),
                         "Qualidade das evidências é baixa")
         IN  IF DetectConflicts(answer)
             THEN Validation("BAIXA",
                             Append(warnings, "Possível conflito normativo detectado"),
                             scores)
             ELSE Validation(CalculateConfidence(scores, Len(evidences)),
                             IF warnings # <<>> THEN warnings ELSE NoneWarnings, scores)

\* ------------------------------------------- inputs of validate_response
CitationInputs == {<<>>, <<1>>, <<1, 2>>, <<2, 2>>, <<9>>}
TextShapes == {<<0, 0>>, <<1, 99>>, <<1, 250>>, <<2, 100>>, <<2, 500>>, <<400, 2400>>}

\* the texts that can exist: every word, marker and "[n]" takes its characters
AnswerInputs ==
    {NoneAnswer} \cup
    {a \in {Answer(no_answer, conflict, citations, shape[1], shape[2], structure) :
               no_answer \in BOOLEAN, conflict \in BOOLEAN, citations \in CitationInputs,
               shape \in TextShapes, structure \in BOOLEAN} :
        /\ a.length >= 2 * a.words - 1
        /\ a.length >= 3 * Len(a.citations)
                       + (IF a.no_answer THEN 10 ELSE 0) + (IF a.conflict THEN 11 ELSE 0)
        /\ a.words = 0 => (a.citations = <<>> /\ ~a.no_answer /\ ~a.conflict)
        /\ a.structure => a.words >= 2}

\* precedence of an evidence: None, a rank of the corpus, or a value past 100
EvidencePrecedences == {NoInt, 1, 150}

\* evidence lists of up to MaxEvid entries; the validator reads a list through
\* len() and sums only, so one order of each combination is drawn
EvidenceInputs ==
    {[i \in 1 .. Len(s) |-> Evidence(s[i])] :
        s \in {t \in SeqsUpTo(EvidencePrecedences, MaxEvid) :
                  \A i \in 1 .. Len(t) - 1 : t[i] <= t[i + 1]}}

\* avg_score = sum(scores) / len(scores) of the retrieval scores (0.0 for
\* none): normalised or fused scores, raw distances, raw reranker outputs
AvgScoreInputs == {Rat(0 - 2, 1), Zero, Rat(1, 2), Rat(2, 1)}

InitValidate ==
    /\ RetrieverInit
    /\ ~reranker
    /\ call \in {[op |-> "validate", answer |-> a, evidences |-> e, avg_score |-> avg] :
                    a \in AnswerInputs, e \in EvidenceInputs, avg \in AvgScoreInputs}
    /\ result = NoResult

ValidateCall ==
    /\ call.op = "validate"
    /\ result = NoResult
    /\ result' = [op |-> "validate",
                  out |-> ValidateResponse(call.answer, call.evidences, call.avg_score)]
    /\ UNCHANGED <<cache, bm25, bm25_corpus, bm25_documents, reranker, wr, rd, call>>

SpecValidate == InitValidate /\ [][ValidateCall]_vars

Validated == result.op = "validate" /\ result.out.ok

\* C11: validate_response called with an empty evidence list returns
\* INSUFICIENTE, whatever the answer text (conflict-language markers
\* included) and whatever the average retrieval score
C11_ZeroEvidenceInsufficient ==
    (result.op = "validate" /\ call.answer.text /\ call.evidences = <<>>) =>
        (result.out.ok /\ result.out.confidence = "INSUFICIENTE")

\* C17: validate_response never raises, whatever it is given (a missing
\* answer text, evidence with missing or out-of-range fields); in the worst
\* case it returns INSUFICIENTE
C17_NeverRaises ==
    result.op = "validate" => result.out.ok

\* C18: each of the component scores citations, completeness and
\* evidence_quality that validate_response returns is in [0,1], for every
\* answer text, evidence list (any precedence) and average retrieval score
C18_ComponentScoresInUnitInterval ==
    Validated =>
        \A key \in DOMAIN result.out.scores :
            RLeq(Zero, result.out.scores[key]) /\ RLeq(result.out.scores[key], One)

\* C20: an answer text that matches a no-answer marker gets INSUFICIENTE, the
\* single fixed warning and an empty score mapping, whatever the evidence,
\* the average score and the conflict markers are
C20_NoAnswerShortCircuit ==
    (result.op = "validate" /\ call.answer.text /\ call.answer.no_answer) =>
        /\ result.out.ok
        /\ result.out.confidence = "INSUFICIENTE"
        /\ result.out.warnings = <<"Resposta indica informação insuficiente">>
        /\ DOMAIN result.out.scores = {}

\* a no-answer text that also cites all of five well-ranked evidences and
\* carries a conflict marker has been validated
C20_Witness ==
    /\ result.op = "validate"
    /\ call.answer.no_answer /\ call.answer.conflict
    /\ call.answer.citations = <<1, 2>>
    /\ Len(call.evidences) >= 5
    /\ call.avg_score = Rat(2, 1)
    /\ result.out.confidence = "INSUFICIENTE"
    /\ DOMAIN result.out.scores = {}

\* C21: a text with a conflict marker and no no-answer marker gets BAIXA and
\* the conflict warning after the warnings of the component scores, whatever
\* the component scores and the evidence count are
C21_ConflictShortCircuit ==
    (result.op = "validate" /\ call.answer.text
     /\ ~call.answer.no_answer /\ call.answer.conflict) =>
        LET scores == result.out.scores
            half == Rat(1, 2)
        IN  /\ result.out.ok
            /\ result.out.confidence = "BAIXA"
            /\ DOMAIN scores = {"citations", "completeness", "evidence_quality"}
            /\ result.out.warnings =
                   (IF RLess(scores.citations, half)
                    THEN <<"Poucas citações encontradas na resposta">> ELSE <<>>)
                   \o (IF RLess(scores.completeness, half)
                       THEN <<"Resposta pode estar incompleta">> ELSE <<>>)
                   \o (IF RLess(scores.evidence_quality, half)
                       THEN <<"Qualidade das evidências é baixa">> ELSE <<>>)
                   \o <<"Possível conflito normativo detectado">>

\* a conflict text whose scores would have aggregated to ALTA
C21_Witness ==
    /\ result.op = "validate" /\ result.out.ok
    /\ call.answer.conflict /\ ~call.answer.no_answer
    /\ Len(call.evidences) >= 5
    /\ CalculateConfidence(result.out.scores, Len(call.evidences)) = "ALTA"
    /\ result.out.confidence = "BAIXA"
    /\ result.out.warnings = <<"Possível conflito normativo detectado">>

\* ---------------------------------------- _calculate_confidence on its own
ComponentInputs == {Rat(0 - 1, 2), Zero, Rat(3, 10), Rat(2, 5), Rat(3, 5), Rat(4, 5), One}

InitConfidence ==
    /\ RetrieverInit
    /\ ~reranker
    /\ call \in {[op |-> "confidence",
                  scores |-> [citations |-> c, completeness |-> m, evidence_quality |-> e],
                  num_evidences |-> n] :
                    c \in ComponentInputs, m \in ComponentInputs, e \in ComponentInputs,
                    n \in 0 .. MaxEvid}
    /\ result = NoResult

CalculateConfidenceCall ==
    /\ call.op = "confidence"
    /\ result = NoResult
    /\ result' = [op |-> "confidence",
                  confidence |-> CalculateConfidence(call.scores, call.num_evidences)]
    /\ UNCHANGED <<cache, bm25, bm25_corpus, bm25_documents, reranker, wr, rd, call>>

SpecConfidence == InitConfidence /\ [][CalculateConfidenceCall]_vars

\* C19: _calculate_confidence takes the mean of the three scores, multiplies
\* it by 0.7 for fewer than 2 evidences and by 1.1 for 5 or more, caps it at
\* 1.0 and maps >= 0.8 to ALTA, >= 0.6 to MEDIA, >= 0.4 to BAIXA and the rest
\* to INSUFICIENTE; the label is a function of the scores and the count
C19_Thresholds ==
    result.op = "confidence" =>
        LET s == call.scores
            n == call.num_evidences
            sum == RAdd(RAdd(s.citations, s.completeness), s.evidence_quality)
            \* 30 * factor * mean = 10 * factor * sum, kept as two integers
            num == sum[1] * (IF n < 2 THEN 7 ELSE IF n >= 5 THEN 11 ELSE 10)
            den == sum[2] * 30
            capped == IF num > den THEN den ELSE num
        IN  /\ result.confidence = "ALTA" <=> 10 * capped >= 8 * den
            /\ result.confidence = "MEDIA" <=> (10 * capped >= 6 * den /\ 10 * capped < 8 * den)
            /\ result.confidence = "BAIXA" <=> (10 * capped >= 4 * den /\ 10 * capped < 6 * den)
            /\ result.confidence = "INSUFICIENTE" <=> 10 * capped < 4 * den

\* a mean that sits exactly on the ALTA threshold, with no adjustment
C19_Witness ==
    /\ result.op = "confidence"
    /\ call.num_evidences = 3
    /\ call.scores.citations = Rat(4, 5)
    /\ call.scores.completeness = Rat(4, 5)
    /\ call.scores.evidence_quality = Rat(4, 5)
    /\ result.confidence = "ALTA"

\* ------------------------------------------------ the answer service
\* (src/src/services/answer_service.py, AnswerService.generate_answer)
\* What generate_answer reads off a question: _is_valid_question, the two
\* regular expressions of _expand_query / _filter_evidences_for_produto_d_prazo
\* (re_produto_d, re_prazo) and the two substring tests of
\* _maybe_answer_produto_d_prazo_direct (in_produto_d, in_prazo).
Question(valid, re_produto_d, re_prazo, in_produto_d, in_prazo) ==
    [valid |-> valid, re_produto_d |-> re_produto_d, re_prazo |-> re_prazo,
     in_produto_d |-> in_produto_d, in_prazo |-> in_prazo]

QuestionInputs ==
    {Question(FALSE, FALSE, FALSE, FALSE, FALSE),    \* "Oi?"
     Question(TRUE, FALSE, FALSE, FALSE, FALSE),     \* "Quem fiscaliza a concessão?"
     Question(TRUE, TRUE, TRUE, TRUE, TRUE),         \* "Qual o prazo do Produto D?"
     Question(TRUE, TRUE, TRUE, TRUE, FALSE),        \* "O que traz o relatório do Produto D?"
     Question(TRUE, FALSE, TRUE, TRUE, TRUE)}        \* "Qual o prazo do produto de apoio?"

\* the chunks whose text holds "dia 10" / "10º dia útil"
PrazoChunks == {3}

\* _prepare_evidences, lines 389-402: zip(documents, scores)
PrepareEvidences(documents, scores) ==
    [i \in 1 .. Least(Len(documents), Len(scores)) |->
        [chunk |-> documents[i].chunk,       \* the chunk its excerpt is taken from
         precedence |-> OrDefault(Corpus[documents[i].chunk].precedencia, NoInt),
         source |-> MetaStr(documents[i].chunk, "source", "Desconhecido"),
         score |-> scores[i],
         prazo |-> documents[i].chunk \in PrazoChunks]]

\* _filter_evidences_for_produto_d_prazo, lines 310-325
FilterEvidencesForProdutoDPrazo(question, evidences) ==
    IF ~(question.re_produto_d /\ question.re_prazo) THEN evidences
    ELSE SelectSeq(evidences, LAMBDA e : e.prazo)

\* _maybe_answer_produto_d_prazo_direct, lines 327-344: is there a direct answer
MaybeAnswerProdutoDPrazoDirect(question, evidences) ==
    question.in_produto_d /\ question.in_prazo

RECURSIVE SumScores(_, _)
SumScores(scores, i) == IF i = 0 THEN 0 ELSE scores[i] + SumScores(scores, i - 1)

\* line 164: sum(scores) / len(scores) if scores else 0.0, scores in 1/ONE
AvgScore(scores) ==
    IF scores = <<>> THEN Zero ELSE Rat(SumScores(scores, Len(scores)), Len(scores) * ONE)

\* _normalize_confidence, lines 346-360, on the validator's labels
NormalizeConfidence(value) ==
    IF value \in {"ALTA", "MEDIA", "BAIXA"} THEN value ELSE "INSUFICIENTE"

\* the AnswerResult (or the exception) generate_answer ends with; kind names
\* the text of the answer, llm_called whether llm_manager.generate was called
AnswerResult(kind, confidence, evidences, warnings, llm_called, retrieval) ==
    [op |-> "generate_answer", ok |-> TRUE, error |-> "", answer |-> kind,
     confidence |-> confidence, evidences |-> evidences, warnings |-> warnings,
     llm_called |-> llm_called, retrieval |-> retrieval]
AnswerRaised(error, llm_called, retrieval) ==
    [op |-> "generate_answer", ok |-> FALSE, error |-> error, answer |-> "",
     confidence |-> "", evidences |-> <<>>, warnings |-> <<>>,
     llm_called |-> llm_called, retrieval |-> retrieval]

\* lines 444-472
CreateInvalidQuestionResponse ==
    AnswerResult("invalid_question", "INSUFICIENTE", <<>>,
                 <<"Pergunta não atende aos critérios mínimos">>, FALSE, NoResult)
CreateNoDocumentsResponseWithEvidence(retrieval) ==
    AnswerResult("no_documents", "INSUFICIENTE",
                 PrepareEvidences(retrieval.before_documents, retrieval.before_scores),
                 <<"Nenhuma evidência retornada.">>, FALSE, retrieval)
CreateNoDocumentsResponse(retrieval) ==
    AnswerResult("no_documents", "INSUFICIENTE", <<>>,
                 <<"Nenhuma evidência retornada.">>, FALSE, retrieval)
CreateErrorResponse(retrieval) ==
    AnswerResult("error", "INSUFICIENTE", <<>>, <<"Erro técnico">>, TRUE, retrieval)

\* lines 139-184: the answer of the generation model, validated and guarded;
\* llm is what llm_manager.generate and _parse_llm_response gave
GeneratedAnswer(evidences, warnings, retrieval, llm) ==
    IF ~llm.ok THEN CreateErrorResponse(retrieval)
    ELSE LET validation_result ==
                 ValidateResponse(llm.answer, evidences, AvgScore(retrieval.scores))
             validated == IF validation_result.warnings = NoneWarnings THEN warnings
                          ELSE warnings \o validation_result.warnings
             has_evidence == \E i \in 1 .. Len(evidences) : evidences[i].prazo
         IN  IF ~validation_result.ok THEN AnswerRaised(validation_result.error, TRUE, retrieval)
             ELSE IF llm.prazo /\ ~has_evidence
             THEN AnswerResult("guardrail", "INSUFICIENTE", evidences,
                               Append(validated,
                                      "Guardrail: prazo citado sem evidência textual compatível."),
                               TRUE, retrieval)
             ELSE AnswerResult("llm", NormalizeConfidence(validation_result.confidence),
                               evidences, validated, TRUE, retrieval)

\* generate_answer after its retrieve call (lines 113-212); retrieval is the
\* RetrievalResult or the exception of that call
AnswerAfterRetrieval(question, retrieval, llm) ==
    IF ~retrieval.ok THEN AnswerRaised(retrieval.error, FALSE, retrieval)
    ELSE IF retrieval.documents = <<>> THEN CreateNoDocumentsResponse(retrieval)
    ELSE LET warnings == Warn(Len(retrieval.documents) < 2,
                              "Poucos documentos encontrados. Resposta pode ser incompleta.")
             evidences == FilterEvidencesForProdutoDPrazo(
                              question, PrepareEvidences(retrieval.documents, retrieval.scores))
         IN  IF evidences = <<>> THEN CreateNoDocumentsResponse(retrieval)
             ELSE IF MaybeAnswerProdutoDPrazoDirect(question, evidences)
             THEN AnswerResult("direct", "ALTA", evidences, warnings, FALSE, retrieval)
             ELSE GeneratedAnswer(evidences, warnings, retrieval, llm)

\* what the generation model can give: an exception, no text, or a text
LlmTexts ==
    {Answer(TRUE, FALSE, <<>>, 2, 100, FALSE),
     Answer(FALSE, TRUE, <<1>>, 2, 100, FALSE),
     Answer(FALSE, FALSE, <<1, 2>>, 2, 500, TRUE)}
LlmOutputs ==
    {[ok |-> FALSE, answer |-> NoneAnswer, prazo |-> FALSE],
     [ok |-> TRUE, answer |-> NoneAnswer, prazo |-> FALSE]}
    \cup {[ok |-> TRUE, answer |-> a, prazo |-> p] : a \in LlmTexts, p \in BOOLEAN}

\* the searches a question is answered from
AnswerVecInputs == {v \in VecInputs : v[1][2] = 0 /\ v[2][2] = MaxRaw}
AnswerLexInputs(n) == {x \in LexInputs(n) : \A i \in 1 .. n : x.lex[i] = i - 1}
AnswerRerankInputs(n) == {x \in RerankInputs(n) : \A i \in 1 .. n : x.scores[i] = 2}

\* filter_kwargs of generate_answer: None and {} both reach retrieve as {}
AnswerFilterCalls ==
    {f \in FilterCalls : f.apply}
    \cup {[apply |-> TRUE, given |-> TRUE, c |-> Criteria("Vigente", NoInt, NoInt, NoInt, {"lei"})]}

\* agenerate_answer after its retrieve call, lines 238-294: no guardrail,
\* warnings=None
AsyncAnswerAfterRetrieval(question, retrieval, llm) ==
    LET evidences == FilterEvidencesForProdutoDPrazo(
                         question, PrepareEvidences(retrieval.documents, retrieval.scores))
        validation_result ==
            ValidateResponse(llm.answer, evidences, AvgScore(retrieval.scores))
        answer ==
            IF ~retrieval.ok THEN AnswerRaised(retrieval.error, FALSE, retrieval)
            ELSE IF retrieval.documents = <<>> THEN CreateNoDocumentsResponse(retrieval)
            ELSE IF evidences = <<>> THEN CreateNoDocumentsResponse(retrieval)
            ELSE IF MaybeAnswerProdutoDPrazoDirect(question, evidences)
            THEN AnswerResult("direct", "ALTA", evidences, NoneWarnings, FALSE, retrieval)
            ELSE IF ~llm.ok THEN CreateErrorResponse(retrieval)
            ELSE IF ~validation_result.ok
            THEN AnswerRaised(validation_result.error, TRUE, retrieval)
            ELSE AnswerResult("llm", NormalizeConfidence(validation_result.confidence),
                              evidences, NoneWarnings, TRUE, retrieval)
    IN  [answer EXCEPT !.op = "agenerate_answer"]

\* a question put to generate_answer, lines 84-212
GenerateAnswer ==
    /\ result = NoResult
    /\ \E question \in QuestionInputs :
          IF ~question.valid
          THEN /\ call' = [op |-> "generate_answer", question |-> question]
               /\ result' = [CreateInvalidQuestionResponse EXCEPT !.op = "generate_answer"]
               /\ UNCHANGED bm25_documents
          ELSE \E strategy \in StrategyInputs, k_in \in KInputs :
               \E up \in (IF UsesVector(strategy) THEN BOOLEAN ELSE {TRUE}) :
               \E v \in (IF UsesVector(strategy) /\ up THEN AnswerVecInputs ELSE {<<>>}),
                  x \in (IF strategy \in {"vector_only", "unsupported"} \/ ~bm25.built
                         THEN {NoLex} ELSE AnswerLexInputs(Len(bm25.docs))) :
                  \E q \in {IF up THEN Query(v, x) ELSE Failing(Query(v, x))},
                     k \in {OrDefault(k_in, DefaultK)} :
                  \E cand \in {Candidates(strategy, q, k)} :
                  \E r \in (IF strategy = "hybrid_rerank" /\ reranker /\ cand.documents # <<>>
                            THEN AnswerRerankInputs(Len(cand.documents)) ELSE {NoRerank}),
                     f \in AnswerFilterCalls, llm \in LlmOutputs :
                  \E s \in {Reranked(strategy, cand, k, r)} :
                     /\ call' = [op |-> "generate_answer", question |-> question,
                                 q |-> q, k |-> k_in, strategy |-> strategy,
                                 f |-> f, r |-> r, llm |-> llm]
                     /\ result' = AnswerAfterRetrieval(
                                      question, RetrievalResult(s, strategy, k, f), llm)
                     /\ bm25_documents' = s.docs_after
    /\ UNCHANGED <<cache, bm25, bm25_corpus, reranker, wr, rd>>

\* a question put to agenerate_answer, lines 214-294: the same validation of
\* the question and the same retrieve call
AGenerateAnswer ==
    /\ result = NoResult
    /\ \E question \in QuestionInputs :
          IF ~question.valid
          THEN /\ call' = [op |-> "agenerate_answer", question |-> question]
               /\ result' = [CreateInvalidQuestionResponse EXCEPT !.op = "agenerate_answer"]
               /\ UNCHANGED bm25_documents
          ELSE \E strategy \in StrategyInputs, k_in \in KInputs :
               \E up \in (IF UsesVector(strategy) THEN BOOLEAN ELSE {TRUE}) :
               \E v \in (IF UsesVector(strategy) /\ up THEN AnswerVecInputs ELSE {<<>>}),
                  x \in (IF strategy \in {"vector_only", "unsupported"} \/ ~bm25.built
                         THEN {NoLex} ELSE AnswerLexInputs(Len(bm25.docs))) :
                  \E q \in {IF up THEN Query(v, x) ELSE Failing(Query(v, x))},
                     k \in {OrDefault(k_in, DefaultK)} :
                  \E cand \in {Candidates(strategy, q, k)} :
                  \E r \in (IF strategy = "hybrid_rerank" /\ reranker /\ cand.documents # <<>>
                            THEN AnswerRerankInputs(Len(cand.documents)) ELSE {NoRerank}),
                     f \in AnswerFilterCalls, llm \in LlmOutputs :
                  \E s \in {Reranked(strategy, cand, k, r)} :
                     /\ call' = [op |-> "agenerate_answer", question |-> question,
                                 q |-> q, k |-> k_in, strategy |-> strategy,
                                 f |-> f, r |-> r, llm |-> llm]
                     /\ result' = AsyncAnswerAfterRetrieval(
                                      question, RetrievalResult(s, strategy, k, f), llm)
                     /\ bm25_documents' = s.docs_after
    /\ UNCHANGED <<cache, bm25, bm25_corpus, reranker, wr, rd>>

\* AnswerService.__init__ builds the lexical index from the vector store
\* (lines 67-74; outside production a failure of it is only logged)
NextAnswer ==
    \/ InitializeBm25(<<>>)
    \/ GenerateAnswer
    \/ AGenerateAnswer
    \/ Return

SpecAnswer == Init /\ [][NextAnswer]_vars

\* the governance filters of the retrieve call removed every document found
FilteredToNothing ==
    /\ result.op \in {"generate_answer", "agenerate_answer"}
    /\ call.question.valid
    /\ result.retrieval.before_documents # <<>>
    /\ ApplyAllFilters(result.retrieval.before_documents, call.f.c) = <<>>
    /\ call.f.apply /\ call.f.given

\* C16: when the governance filters remove every document, retrieve raises
\* no error and returns empty documents and scores, and generate_answer
\* returns the no-evidence answer with INSUFICIENTE and an empty evidence
\* list without calling the generation model
C16_EmptyResultIsNoEvidence ==
    FilteredToNothing =>
        /\ result.retrieval.ok
        /\ result.retrieval.documents = <<>>
        /\ result.retrieval.scores = <<>>
        /\ result.ok
        /\ result.answer = "no_documents"
        /\ result.confidence = "INSUFICIENTE"
        /\ result.evidences = <<>>
        /\ ~result.llm_called

\* two documents were found, both were filtered out, and the generation
\* model stood ready with a well-cited answer
C16_Witness ==
    /\ FilteredToNothing
    /\ Len(result.retrieval.before_documents) = 2
    /\ call.llm.ok /\ call.llm.answer.citations = <<1, 2>>
    /\ result.answer = "no_documents"
    /\ result.evidences = <<>>

\* C28: for the same question, retrieval result and generated text
\* agenerate_answer returns the answer text and the confidence that
\* generate_answer returns
C28_AsyncMatchesSync ==
    (result.op = "agenerate_answer" /\ call.question.valid) =>
        LET sync == AnswerAfterRetrieval(call.question, result.retrieval, call.llm)
        IN  /\ result.ok = sync.ok
            /\ result.answer = sync.answer
            /\ result.confidence = sync.confidence

\* C29: generate_answer returns the rule-based answer (confidence ALTA) only
\* with evidences that all hold the "dia 10" / "10º dia útil" pattern
C29_DirectAnswerIsGrounded ==
    (result.op = "generate_answer" /\ result.ok /\ result.answer = "direct") =>
        /\ result.confidence = "ALTA"
        /\ \A i \in 1 .. Len(result.evidences) : result.evidences[i].prazo

\* C30: when generate_answer is called without filter criteria, every
\* document used as evidence has status "Vigente"
C30_DefaultStatusFilter ==
    (/\ result.op = "generate_answer" /\ result.ok
     /\ call.question.valid /\ ~call.f.given) =>
        \A i \in 1 .. Len(result.evidences) :
            MetaStr(result.evidences[i].chunk, "status", "Vigente") = "Vigente"

\* ------------------------------------------------- the embedding cache
\* (src/backup_20251226_1106/src/core/embeddings.py, EmbeddingCache)
MaxRequests == 2

\* texts and model names as sequences of characters
CacheStrings == {<<"m">>, <<"m", ":", "m">>}

\* _get_cache_key / _get_cache_path: the file is named by the digest of
\* f"{model}:{text}", one file per distinct string
GetCacheKey(text, model) == model \o <<":">> \o text

\* what a cache file can hold: nothing (no file), bytes pickle cannot load,
\* a pickle without an "embedding" entry, or the dict that set wrote
Entry(kind, embedding) == [kind |-> kind, embedding |-> embedding]

\* get that leaves an unreadable file in place (no unlink)
GetOutcomeKeepsFile(entry) ==
    IF entry.kind = "missing"
    THEN [value |-> NoInt, file |-> entry, hit |-> 0, miss |-> 1]
    ELSE IF entry.kind = "stored"
    THEN [value |-> entry.embedding, file |-> entry, hit |-> 1, miss |-> 0]
    ELSE IF entry.kind = "garbage"
    THEN [value |-> NoInt, file |-> entry, hit |-> 0, miss |-> 1]
    ELSE [value |-> NoInt, file |-> entry, hit |-> 1, miss |-> 1]

\* get on an enabled cache, lines 68-79, for what the file holds: the value
\* returned, the file afterwards and the increments of the counters (the
\* hit is counted at line 72, before data["embedding"] is read)
GetOutcome(entry) ==
    IF entry.kind = "missing"
    THEN [value |-> NoInt, file |-> Entry("missing", NoInt), hit |-> 0, miss |-> 1]
    ELSE IF entry.kind = "stored"
    THEN [value |-> entry.embedding, file |-> entry, hit |-> 1, miss |-> 0]
    ELSE IF entry.kind = "garbage"
    THEN [value |-> NoInt, file |-> Entry("missing", NoInt), hit |-> 0, miss |-> 1]
    ELSE [value |-> NoInt, file |-> Entry("missing", NoInt), hit |-> 1, miss |-> 1]

\* EmbeddingCache.__init__, lines 39-47, on an empty cache directory
InitCache ==
    /\ bm25 = [built |-> FALSE, docs |-> <<>>]
    /\ bm25_corpus = <<>>
    /\ bm25_documents = <<>>
    /\ reranker = FALSE
    /\ wr = WrIdle
    /\ rd = RdIdle
    /\ call = NoCall
    /\ result = NoResult
    /\ \E enabled \in BOOLEAN :
          cache = [enabled |-> enabled, files |-> [key \in {GetCacheKey(text, model) : text \in CacheStrings,
                                                                           model \in CacheStrings}
                                       |-> Entry("missing", NoInt)],
                   hits |-> 0, misses |-> 0]

\* get, lines 60-79
CacheGet(text, model) ==
    /\ cache.hits < MaxRequests /\ cache.misses < MaxRequests
    /\ call' = [op |-> "cache_get", text |-> text, model |-> model, embedding |-> NoInt]
    /\ IF ~cache.enabled
       THEN /\ result' = [op |-> "cache_get", ok |-> TRUE, value |-> NoInt,
                          found |-> Entry("missing", NoInt), outcome |-> "disabled"]
            /\ UNCHANGED cache
       ELSE LET key == GetCacheKey(text, model)
                out == GetOutcome(cache.files[key])
            IN  /\ result' = [op |-> "cache_get", ok |-> TRUE, value |-> out.value,
                              found |-> cache.files[key], outcome |-> "read"]
                /\ cache' = [cache EXCEPT !.files[key] = out.file,
                                          !.hits = @ + out.hit, !.misses = @ + out.miss]
    /\ UNCHANGED <<bm25, bm25_corpus, bm25_documents, reranker, wr, rd>>

\* set, lines 81-99: the dict is written, or open fails and the file stays
\* as it is, or the dump breaks off and leaves a truncated file; failures are
\* only printed
CacheSet(text, model, embedding) ==
    /\ call' = [op |-> "cache_set", text |-> text, model |-> model, embedding |-> embedding]
    /\ IF ~cache.enabled
       THEN /\ result' = [op |-> "cache_set", ok |-> TRUE, value |-> NoInt,
                          found |-> Entry("missing", NoInt), outcome |-> "disabled"]
            /\ UNCHANGED cache
       ELSE LET key == GetCacheKey(text, model)
            IN  \E outcome \in {"written", "not_opened", "truncated"} :
                   /\ result' = [op |-> "cache_set", ok |-> TRUE, value |-> NoInt,
                                 found |-> cache.files[key], outcome |-> outcome]
                   /\ cache' = [cache EXCEPT !.files[key] =
                                    IF outcome = "written" THEN Entry("stored", embedding)
                                    ELSE IF outcome = "truncated" THEN Entry("garbage", NoInt)
                                    ELSE @]
    /\ UNCHANGED <<bm25, bm25_corpus, bm25_documents, reranker, wr, rd>>

\* a file of the cache directory is damaged on disk
CorruptFile(key) ==
    /\ cache.enabled
    /\ cache.files[key].kind = "stored"
    /\ \E entry \in {Entry("garbage", NoInt), Entry("no_embedding", NoInt)} :
          cache' = [cache EXCEPT !.files[key] = entry]
    /\ call' = NoCall
    /\ result' = NoResult
    /\ UNCHANGED <<bm25, bm25_corpus, bm25_documents, reranker, wr, rd>>

NextCache ==
    \/ \E text \in CacheStrings, model \in CacheStrings : CacheGet(text, model)
    \/ \E text \in CacheStrings, model \in CacheStrings, embedding \in {1, 2} :
          CacheSet(text, model, embedding)
    \/ \E key \in DOMAIN cache.files : CorruptFile(key)

SpecCache == InitCache /\ [][NextCache]_vars

\* C26: EmbeddingCache.get does not raise on a missing or corrupted entry: it
\* returns None and no file is left behind, and a get that follows a
\* successful set for the same text and model returns the embedding stored
C26_CorruptEntryIsMiss ==
    /\ [](result.op = "cache_get" =>
             /\ result.ok
             /\ (cache.enabled /\ result.found.kind # "stored") =>
                    /\ result.value = NoInt
                    /\ cache.files[GetCacheKey(call.text, call.model)] = Entry("missing", NoInt))
    /\ [][(/\ result.op = "cache_set" /\ result.outcome = "written"
           /\ result'.op = "cache_get"
           /\ call'.text = call.text /\ call'.model = call.model)
             => result'.value = call.embedding]_vars

\* a get that found a damaged file, returned None and removed it
C26_Witness ==
    /\ result.op = "cache_get" /\ result.ok
    /\ result.found.kind \in {"garbage", "no_embedding"}
    /\ result.value = NoInt
    /\ cache.files[GetCacheKey(call.text, call.model)] = Entry("missing", NoInt)
    /\ cache.misses > 0

====
